---- MODULE Spec2Model ----
(***************************************************************************)
(* The Kaleidoscope front end of kannanlu/compiler: the hand-written       *)
(* tokenizer (gettok), the precedence table (BinopPrecedence) and the      *)
(* recursive-descent / operator-precedence parser.                         *)
(*                                                                         *)
(* Characters are their ASCII codes, as in the C++ source, where a token   *)
(* is an int: a negative enumerator or the character's own value.          *)
(* Strings (IdentifierStr, NumStr) are sequences of character codes.       *)
(***************************************************************************)
EXTENDS Integers, Sequences, FiniteSets, TLC

VARIABLES
    input,           \* the characters standard input will deliver, in order
    pos,             \* how many of them getchar() has delivered
    LastChar,        \* gettok's static one-character lookahead
    IdentifierStr,   \* filled in if tok_identifier
    NumVal,          \* filled in if tok_number
    CurTok,          \* the parser's one-token lookahead
    BinopPrecedence, \* std::map<char,int>: a function on the keys it holds
    lastop           \* history: what the driver's last call did

vars == <<input, pos, LastChar, IdentifierStr, NumVal, CurTok, BinopPrecedence, lastop>>

----------------------------------------------------------------------------
(* Bounds of the model *)

\* longest raw character string fed to the tokenizer specification
MaxLen == 4
\* most binary operators in a generated operator chain
MaxOps == 3
\* most binary operators in a generated chain of mixed primaries
MaxMixOps == 2
\* most arguments in a generated call
MaxArgs == 2
\* most parameters in a generated prototype
MaxParams == 3

----------------------------------------------------------------------------
(* Characters and tokens *)

Ascii == [nul |-> 0, tab |-> 9, nl |-> 10, cr |-> 13, sp |-> 32, hash |-> 35,
          lpar |-> 40, rpar |-> 41, star |-> 42, plus |-> 43, comma |-> 44,
          minus |-> 45, dot |-> 46, lt |-> 60, del |-> 127]

EOF == -1

tok_eof == -1
tok_def == -2
tok_extern == -3
tok_identifier == -4
tok_number == -5

IsSpace(c) == c \in 9..13 \/ c = Ascii.sp
IsAlpha(c) == c \in 65..90 \/ c \in 97..122
IsDigit(c) == c \in 48..57
IsAlnum(c) == IsAlpha(c) \/ IsDigit(c)
IsAscii(c) == c \in Ascii.nul..Ascii.del

\* the text of the two keywords
KwDef == <<100, 101, 102>>
KwExtern == <<101, 120, 116, 101, 114, 110>>

----------------------------------------------------------------------------
(* strtod on a string of digits and dots.  A value is the exact decimal    *)
(* m / 10^e with trailing fractional zeros removed, so that "1", "1." and  *)
(* "1.0" denote the same number.                                           *)

RECURSIVE DigitPrefix(_)
DigitPrefix(str) ==
    IF str # <<>> /\ IsDigit(Head(str))
    THEN <<Head(str)>> \o DigitPrefix(Tail(str))
    ELSE <<>>

RECURSIVE DigitsValue(_)
DigitsValue(digs) ==
    IF digs = <<>> THEN 0
    ELSE 10 * DigitsValue(SubSeq(digs, 1, Len(digs) - 1)) + (digs[Len(digs)] - 48)

RECURSIVE Normalize(_, _)
Normalize(m, e) ==
    IF e > 0 /\ m % 10 = 0 THEN Normalize(m \div 10, e - 1) ELSE [m |-> m, e |-> e]

Strtod(NumStr) ==
    LET ip   == DigitPrefix(NumStr)
        rest == SubSeq(NumStr, Len(ip) + 1, Len(NumStr))
        fp   == IF rest # <<>> /\ Head(rest) = Ascii.dot
                THEN DigitPrefix(Tail(rest)) ELSE <<>>
    IN  IF ip = <<>> /\ fp = <<>>
        THEN [m |-> 0, e |-> 0]
        ELSE Normalize(DigitsValue(ip \o fp), Len(fp))

----------------------------------------------------------------------------
(* The tokenizer.  The operators thread a record s holding the program's   *)
(* variables (pos, LastChar, IdentifierStr, NumVal, CurTok, tab), the      *)
(* characters standard input holds (inp) and the history of the call in    *)
(* progress (reads, log, errs).                                            *)

\* getchar(): the next character of standard input, EOF once it is exhausted
NextCh(s) == IF s.pos < Len(s.inp) THEN s.inp[s.pos + 1] ELSE EOF

\* LastChar = getchar();
ReadLast(s) ==
    [s EXCEPT !.LastChar = NextCh(s),
              !.pos = IF s.pos < Len(s.inp) THEN s.pos + 1 ELSE s.pos,
              !.reads = @ + 1]

RECURSIVE SkipSpace(_)
SkipSpace(s) == IF IsSpace(s.LastChar) THEN SkipSpace(ReadLast(s)) ELSE s

RECURSIVE ScanIdent(_)
ScanIdent(s) ==
    LET t == ReadLast(s)
    IN  IF IsAlnum(t.LastChar)
        THEN ScanIdent([t EXCEPT !.IdentifierStr = Append(@, t.LastChar)])
        ELSE t

RECURSIVE ScanNumber(_, _)
ScanNumber(s, NumStr) ==
    LET n == Append(NumStr, s.LastChar)
        t == ReadLast(s)
    IN  IF IsDigit(t.LastChar) \/ t.LastChar = Ascii.dot
        THEN ScanNumber(t, n)
        ELSE [s |-> t, NumStr |-> n]

RECURSIVE SkipComment(_)
SkipComment(s) ==
    LET t == ReadLast(s)
    IN  IF t.LastChar # EOF /\ t.LastChar # Ascii.nl /\ t.LastChar # Ascii.cr
        THEN SkipComment(t)
        ELSE t

\* faulty variant: a keyword is recognised by its prefix
IdentToken_Prefix(id) ==
    IF Len(id) >= 3 /\ SubSeq(id, 1, 3) = KwDef THEN tok_def
    ELSE IF Len(id) >= 6 /\ SubSeq(id, 1, 6) = KwExtern THEN tok_extern
    ELSE tok_identifier

\* the token of a scanned name
IdentToken(id) ==
    IF id = KwDef THEN tok_def
    ELSE IF id = KwExtern THEN tok_extern
    ELSE tok_identifier

\* faulty variant: the end of file is eaten
EofToken_Eat(s) == [s |-> ReadLast(s), tok |-> tok_eof]

\* "Check for the end of file.  Don't eat the EOF."
EofToken(s) == [s |-> s, tok |-> tok_eof]

\* faulty variant: the character is returned but not consumed
CharToken_Stay(s) == [s |-> s, tok |-> s.LastChar]

\* "Otherwise, just return the character as its ascii value."
CharToken(s) == [s |-> ReadLast(s), tok |-> s.LastChar]

RECURSIVE gettok(_)
gettok(s0) ==
    LET s == SkipSpace(s0)
    IN  IF IsAlpha(s.LastChar)
        THEN LET t == ScanIdent([s EXCEPT !.IdentifierStr = <<s.LastChar>>])
             IN  [s |-> t, tok |-> IdentToken(t.IdentifierStr)]
        ELSE IF IsDigit(s.LastChar) \/ s.LastChar = Ascii.dot
        THEN LET n == ScanNumber(s, <<>>)
             IN  [s |-> [n.s EXCEPT !.NumVal = Strtod(n.NumStr)], tok |-> tok_number]
        ELSE LET c == IF s.LastChar = Ascii.hash THEN SkipComment(s) ELSE s
             IN  IF s.LastChar = Ascii.hash /\ c.LastChar # EOF
                 THEN gettok(c)
                 ELSE IF c.LastChar = EOF
                 THEN EofToken(c)
                 ELSE CharToken(c)

\* return CurTok = gettok();   (the log entry is history, not program state)
getNextToken(s) ==
    LET g == gettok([s EXCEPT !.reads = 0])
    IN  [g.s EXCEPT !.CurTok = g.tok,
                    !.log = Append(@, [tok |-> g.tok, reads |-> g.s.reads,
                                       from |-> s.pos, to |-> g.s.pos])]

----------------------------------------------------------------------------
(* AST nodes *)

\* nullptr
Null == [kind |-> "null"]

NumberExprAST(Val) == [kind |-> "Number", Val |-> Val]
VariableExprAST(Name) == [kind |-> "Variable", Name |-> Name]
BinaryExprAST(Op, LHS, RHS) == [kind |-> "Binary", Op |-> Op, LHS |-> LHS, RHS |-> RHS]
CallExprAST(Callee, Args) == [kind |-> "Call", Callee |-> Callee, Args |-> Args]
PrototypeAST(Name, Args) == [kind |-> "Prototype", Name |-> Name, Args |-> Args]

----------------------------------------------------------------------------
(* The parser.  Every routine maps the threaded record s to [s, r]: the    *)
(* record after the call and the node returned, Null for nullptr.          *)

\* LogError / LogErrorP: print the message, return nullptr.  The history
\* keeps the message, how many tokens the call had consumed, and CurTok.
LogError(s, Str) ==
    [s |-> [s EXCEPT !.errs = Append(@, [msg |-> Str, at |-> Len(s.log),
                                         tok |-> s.CurTok])],
     r |-> Null]

\* int TokPrec = BinopPrecedence[CurTok];  operator[] inserts a missing key
\* with the value 0
Lookup(tab, c) == IF c \in DOMAIN tab THEN tab ELSE tab @@ (c :> 0)

GetTokPrecedence(s) ==
    IF ~IsAscii(s.CurTok)
    THEN [s |-> s, prec |-> -1]
    ELSE LET tab2 == Lookup(s.tab, s.CurTok)
         IN  [s |-> [s EXCEPT !.tab = tab2],
              prec |-> IF tab2[s.CurTok] <= 0 THEN -1 ELSE tab2[s.CurTok]]

ParseNumberExpr(s) ==
    [s |-> getNextToken(s), r |-> NumberExprAST(s.NumVal)]

\* faulty variant: the pending operator never takes RHS
TighterThan_Never(TokPrec, NextPrec) == FALSE

\* "If BinOp binds less tightly with RHS than the operator after RHS"
TighterThan(TokPrec, NextPrec) == TokPrec < NextPrec

\* Every call of one parse routine by another goes through Parse, which
\* dispatches on the routine's name; a holds the arguments besides s.
\* What a routine does with the value of a call it made is an operator of
\* that value (ParseParenExpr / ParenExprClose, ...).
RECURSIVE Parse(_, _, _)

\* faulty variant: after reporting the missing ')' the parser skips the offending token
ParenExprClose_Skip(v) ==
    IF v.r = Null THEN v
    ELSE IF v.s.CurTok # Ascii.rpar
    THEN [s |-> getNextToken(LogError(v.s, "expected ')'").s), r |-> Null]
    ELSE [s |-> getNextToken(v.s), r |-> v.r]

\* ParseParenExpr once V = ParseExpression() has returned
ParenExprClose(v) ==
    IF v.r = Null THEN v
    ELSE IF v.s.CurTok # Ascii.rpar THEN LogError(v.s, "expected ')'")
    ELSE [s |-> getNextToken(v.s), r |-> v.r]

\* faulty variant: only a primary is accepted between the parentheses
ParseParenExpr_Primary(s) == ParenExprClose(Parse("Primary", <<>>, getNextToken(s)))

ParseParenExpr(s) == ParenExprClose(Parse("Expression", <<>>, getNextToken(s)))

\* faulty variant: the arguments are collected in reverse
PushArg_Front(Args, Arg) == <<Arg>> \o Args

\* Args.push_back(std::move(Arg));
PushArg(Args, Arg) == Append(Args, Arg)

\* one round of the while (true) loop of ParseIdentifierExpr, once
\* Arg = ParseExpression() has returned; Args holds the arguments so far
ArgsNext(IdName, Args, a) ==
    IF a.r = Null THEN a
    ELSE IF a.s.CurTok = Ascii.rpar
    THEN [s |-> getNextToken(a.s), r |-> CallExprAST(IdName, PushArg(Args, a.r))]
    ELSE IF a.s.CurTok # Ascii.comma
    THEN LogError(a.s, "Expected ')' or ',' in argument list")
    ELSE Parse("Args", <<IdName, PushArg(Args, a.r)>>, getNextToken(a.s))

ParseArgs(IdName, Args, s) == ArgsNext(IdName, Args, Parse("Expression", <<>>, s))

\* ParseIdentifierExpr after "eat (", s2 the record then
IdentifierExprCall(IdName, s2) ==
    IF s2.CurTok # Ascii.rpar
    THEN Parse("Args", <<IdName, <<>>>>, s2)
    ELSE [s |-> getNextToken(s2), r |-> CallExprAST(IdName, <<>>)]

\* ParseIdentifierExpr after "eat identifier", s1 the record then
IdentifierExprRest(IdName, s1) ==
    IF s1.CurTok # Ascii.lpar
    THEN [s |-> s1, r |-> VariableExprAST(IdName)]
    ELSE IdentifierExprCall(IdName, getNextToken(s1))

ParseIdentifierExpr(s) == IdentifierExprRest(s.IdentifierStr, getNextToken(s))

ParsePrimary(s) ==
    IF s.CurTok = tok_identifier THEN Parse("IdentifierExpr", <<>>, s)
    ELSE IF s.CurTok = tok_number THEN ParseNumberExpr(s)
    ELSE IF s.CurTok = Ascii.lpar THEN Parse("ParenExpr", <<>>, s)
    ELSE LogError(s, "Unknown token when expecting an expression")

\* "Merge LHS/RHS." and go round the loop again
BinOpMerge(ExprPrec, LHS, BinOp, rhs) ==
    IF rhs.r = Null THEN rhs
    ELSE Parse("BinOpRHS", <<ExprPrec, BinaryExprAST(BinOp, LHS, rhs.r)>>, rhs.s)

\* faulty variant: an operator of equal precedence also takes RHS first (right associative)
BinOpNext_RightAssoc(ExprPrec, LHS, TokPrec, BinOp, RHS, n) ==
    BinOpMerge(ExprPrec, LHS, BinOp,
               IF TokPrec <= n.prec
               THEN Parse("BinOpRHS", <<TokPrec, RHS>>, n.s)
               ELSE [s |-> n.s, r |-> RHS])

\* after NextPrec = GetTokPrecedence(): let the pending operator take RHS first?
BinOpNext(ExprPrec, LHS, TokPrec, BinOp, RHS, n) ==
    BinOpMerge(ExprPrec, LHS, BinOp,
               IF TighterThan(TokPrec, n.prec)
               THEN Parse("BinOpRHS", <<TokPrec + 1, RHS>>, n.s)
               ELSE [s |-> n.s, r |-> RHS])

\* after RHS = ParsePrimary()
BinOpPrimary(ExprPrec, LHS, TokPrec, BinOp, p) ==
    IF p.r = Null THEN p
    ELSE BinOpNext(ExprPrec, LHS, TokPrec, BinOp, p.r, GetTokPrecedence(p.s))

\* one round of the while (true) loop, after TokPrec = GetTokPrecedence()
BinOpRound(ExprPrec, LHS, g) ==
    IF g.prec < ExprPrec
    THEN [s |-> g.s, r |-> LHS]
    ELSE BinOpPrimary(ExprPrec, LHS, g.prec, g.s.CurTok,
                      Parse("Primary", <<>>, getNextToken(g.s)))

ParseBinOpRHS(ExprPrec, LHS, s) == BinOpRound(ExprPrec, LHS, GetTokPrecedence(s))

\* faulty variant: the minimal precedence the loop may eat starts at -1
ExpressionRest_MinusOne(l) ==
    IF l.r = Null THEN l
    ELSE Parse("BinOpRHS", <<-1, l.r>>, l.s)

\* ParseExpression once LHS = ParsePrimary() has returned
ExpressionRest(l) ==
    IF l.r = Null THEN l
    ELSE Parse("BinOpRHS", <<0, l.r>>, l.s)

ParseExpression(s) == ExpressionRest(Parse("Primary", <<>>, s))

Parse(routine, a, s) ==
    CASE routine = "Expression"     -> ParseExpression(s)
      [] routine = "Primary"        -> ParsePrimary(s)
      [] routine = "ParenExpr"      -> ParseParenExpr(s)
      [] routine = "IdentifierExpr" -> ParseIdentifierExpr(s)
      [] routine = "Args"           -> ParseArgs(a[1], a[2], s)
      [] routine = "BinOpRHS"       -> ParseBinOpRHS(a[1], a[2], s)

\* faulty variant: a comma between parameter names is skipped
RECURSIVE ProtoArgNames_Commas(_, _)
ProtoArgNames_Commas(ArgNames, t) ==
    IF t.CurTok = tok_identifier
    THEN ProtoArgNames_Commas(Append(ArgNames, t.IdentifierStr), getNextToken(t))
    ELSE IF t.CurTok = Ascii.comma
    THEN ProtoArgNames_Commas(ArgNames, getNextToken(t))
    ELSE [s |-> t, ArgNames |-> ArgNames]

\* while (getNextToken() == tok_identifier) ArgNames.push_back(IdentifierStr);
\* t is the record after the getNextToken() of the loop's test
RECURSIVE ProtoArgNames(_, _)
ProtoArgNames(ArgNames, t) ==
    IF t.CurTok = tok_identifier
    THEN ProtoArgNames(Append(ArgNames, t.IdentifierStr), getNextToken(t))
    ELSE [s |-> t, ArgNames |-> ArgNames]

\* ParsePrototype after the loop over the parameter names
PrototypeClose(FnName, a) ==
    IF a.s.CurTok # Ascii.rpar
    THEN LogError(a.s, "Expected ')' in prototype")
    ELSE [s |-> getNextToken(a.s), r |-> PrototypeAST(FnName, a.ArgNames)]

\* ParsePrototype after "eat function name", s1 the record then
PrototypeRest(FnName, s1) ==
    IF s1.CurTok # Ascii.lpar
    THEN LogError(s1, "Expected '(' in prototype")
    ELSE PrototypeClose(FnName, ProtoArgNames(<<>>, getNextToken(s1)))

ParsePrototype(s) ==
    IF s.CurTok # tok_identifier
    THEN LogError(s, "Expected function name in prototype")
    ELSE PrototypeRest(s.IdentifierStr, getNextToken(s))

----------------------------------------------------------------------------
(* The program's state as a record, and back *)

St == [inp |-> input, pos |-> pos, LastChar |-> LastChar, IdentifierStr |-> IdentifierStr,
       NumVal |-> NumVal, CurTok |-> CurTok, tab |-> BinopPrecedence,
       reads |-> 0, log |-> <<>>, errs |-> <<>>]

Pre == [pos |-> pos, LastChar |-> LastChar, IdentifierStr |-> IdentifierStr,
        NumVal |-> NumVal, CurTok |-> CurTok, tab |-> BinopPrecedence]

Commit(s) ==
    /\ pos' = s.pos
    /\ LastChar' = s.LastChar
    /\ IdentifierStr' = s.IdentifierStr
    /\ NumVal' = s.NumVal
    /\ CurTok' = s.CurTok
    /\ BinopPrecedence' = s.tab

\* what the history keeps of a call: the node returned, the tokens read,
\* the errors logged, and the program's variables before the call
Record(name, s, r) ==
    [op |-> name, r |-> r, log |-> s.log, errs |-> s.errs, pre |-> Pre]

\* The driver calls getNextToken().
GetNextToken ==
    /\ Commit(getNextToken(St))
    /\ lastop' = Record("getNextToken", getNextToken(St), Null)
    /\ UNCHANGED input

\* The driver calls ParseExpression().
CallParseExpression ==
    /\ Commit(Parse("Expression", <<>>, St).s)
    /\ lastop' = Record("ParseExpression", Parse("Expression", <<>>, St).s,
                        Parse("Expression", <<>>, St).r)
    /\ UNCHANGED input

\* The driver calls ParsePrototype().
CallParsePrototype ==
    /\ Commit(ParsePrototype(St).s)
    /\ lastop' = Record("ParsePrototype", ParsePrototype(St).s, ParsePrototype(St).r)
    /\ UNCHANGED input

\* Parsing has not begun: the driver may still configure the table.
NotStarted == lastop.op \in {"none", "install"}

\* BinopPrecedence[c] = p;
Assign(tab, c, p) == [x \in DOMAIN tab \cup {c} |-> IF x = c THEN p ELSE tab[x]]

\* the operators and precedences a driver registers in this model
InstallOps == {Ascii.plus, Ascii.star}
Precs == {20, 40}

\* The driver registers one operator before parsing begins.
InstallBinop ==
    /\ NotStarted
    /\ \E c \in InstallOps, p \in Precs :
           BinopPrecedence' = Assign(BinopPrecedence, c, p)
    /\ lastop' = [lastop EXCEPT !.op = "install"]
    /\ UNCHANGED <<input, pos, LastChar, IdentifierStr, NumVal, CurTok>>

\* the four assignments the source keeps in a comment
Builtins(tab) ==
    Assign(Assign(Assign(Assign(tab, Ascii.lt, 10), Ascii.plus, 20),
                  Ascii.minus, 20), Ascii.star, 40)

\* The driver installs the builtin operators before parsing begins.
InstallBuiltins ==
    /\ NotStarted
    /\ BinopPrecedence' = Builtins(BinopPrecedence)
    /\ lastop' = [lastop EXCEPT !.op = "install"]
    /\ UNCHANGED <<input, pos, LastChar, IdentifierStr, NumVal, CurTok>>

----------------------------------------------------------------------------
(* Inputs of the tokenizer specification: every string of at most MaxLen   *)
(* characters over LexAlphabet, alone or after one of LexWords.            *)

LexAlphabet == {100, 101, 102, 49, Ascii.sp, Ascii.nl, Ascii.hash, Ascii.plus}

LexWords == {<<>>, KwDef, KwExtern, <<101, 120, 116, 101, 114>>}

RECURSIVE StringsUpTo(_, _)
StringsUpTo(A, n) ==
    IF n = 0 THEN {<<>>}
    ELSE LET S == StringsUpTo(A, n - 1)
         IN  S \cup {Append(w, c) : w \in {x \in S : Len(x) = n - 1}, c \in A}

LexInputs == {w \o t : w \in LexWords, t \in StringsUpTo(LexAlphabet, MaxLen)}

InitProgram ==
    /\ pos = 0
    /\ LastChar = Ascii.sp
    /\ IdentifierStr = <<>>
    /\ NumVal = [m |-> 0, e |-> 0]
    /\ CurTok = 0
    /\ BinopPrecedence = <<>>
    /\ lastop = [op |-> "none", r |-> Null, log |-> <<>>, errs |-> <<>>, pre |-> Null]

LexInit == input \in LexInputs /\ InitProgram

LexNext == GetNextToken

LexSpec == LexInit /\ [][LexNext]_vars

----------------------------------------------------------------------------
(* Inputs of the parser specification: operator chains over simple and     *)
(* compound primaries, parenthesised sub-chains, calls and prototypes,     *)
(* and every prefix of these (the malformed inputs).                       *)

ChainOps == {Ascii.plus, Ascii.minus, Ascii.star}
Kinds == {"num", "mix"}

\* "foo"
Foo == <<102, 111, 111>>

Letter(i) == <<96 + i>>
Digit(i) == <<48 + i>>

\* the i-th operand of a chain: a digit, or in turn a letter, a
\* parenthesised digit and a call without arguments
Operand(kind, i) ==
    CASE kind = "num"               -> Digit(i)
      [] kind = "mix" /\ i % 3 = 1  -> Letter(i)
      [] kind = "mix" /\ i % 3 = 2  -> <<Ascii.lpar>> \o Digit(i) \o <<Ascii.rpar>>
      [] kind = "mix" /\ i % 3 = 0  -> Foo \o <<Ascii.lpar, Ascii.rpar>>

\* operand_1 ops[1] operand_2 ... ops[k] operand_{k+1}
RECURSIVE ChainText(_, _)
ChainText(kind, ops) ==
    IF ops = <<>> THEN Operand(kind, 1)
    ELSE ChainText(kind, SubSeq(ops, 1, Len(ops) - 1))
             \o <<ops[Len(ops)]>> \o Operand(kind, Len(ops) + 1)

OpSeqs == StringsUpTo(ChainOps, MaxOps)
MixOpSeqs == StringsUpTo(ChainOps, MaxMixOps)

\* chains of digits with up to MaxOps operators, of mixed primaries with up to MaxMixOps
Chains == {ChainText("num", ops) : ops \in OpSeqs}
          \cup {ChainText("mix", ops) : ops \in MixOpSeqs}

\* ( a op1 b ) op2 c   and   a op1 ( b op2 c )
ParenLeft(kind, op1, op2) ==
    <<Ascii.lpar>> \o Operand(kind, 1) \o <<op1>> \o Operand(kind, 2)
        \o <<Ascii.rpar, op2>> \o Operand(kind, 3)

ParenRight(kind, op1, op2) ==
    Operand(kind, 1) \o <<op1, Ascii.lpar>> \o Operand(kind, 2) \o <<op2>>
        \o Operand(kind, 3) \o <<Ascii.rpar>>

Parens == {ParenLeft(k, o1, o2) : k \in Kinds, o1 \in ChainOps, o2 \in ChainOps}
          \cup {ParenRight(k, o1, o2) : k \in Kinds, o1 \in ChainOps, o2 \in ChainOps}

\* the i-th argument of a call: a letter, a digit or the sum of two digits
ArgKinds == {"id", "num", "sum"}

ArgText(kind, i) ==
    CASE kind = "id"  -> Letter(i)
      [] kind = "num" -> Digit(i)
      [] kind = "sum" -> Digit(i) \o <<Ascii.plus>> \o Digit(i + 1)

\* arg_1 ", " arg_2 ", " ... arg_n
RECURSIVE ArgListText(_)
ArgListText(kinds) ==
    IF kinds = <<>> THEN <<>>
    ELSE IF Len(kinds) = 1 THEN ArgText(kinds[1], 1)
    ELSE ArgListText(SubSeq(kinds, 1, Len(kinds) - 1))
             \o <<Ascii.comma, Ascii.sp>> \o ArgText(kinds[Len(kinds)], Len(kinds))

\* foo(arg_1, ..., arg_n)
CallText(kinds) == Foo \o <<Ascii.lpar>> \o ArgListText(kinds) \o <<Ascii.rpar>>

ArgKindSeqs == StringsUpTo(ArgKinds, MaxArgs)

Calls == {CallText(kinds) : kinds \in ArgKindSeqs}

\* a b c ...: k parameter names with single spaces between them
RECURSIVE ParamListText(_)
ParamListText(k) ==
    IF k = 0 THEN <<>>
    ELSE IF k = 1 THEN Letter(1)
    ELSE ParamListText(k - 1) \o <<Ascii.sp>> \o Letter(k)

\* foo(a b c)
ProtoText(k) == Foo \o <<Ascii.lpar>> \o ParamListText(k) \o <<Ascii.rpar>>

Protos == {ProtoText(k) : k \in 0..MaxParams}

\* 1 #x<newline>+2   and   1+2#x  (the input ends inside the comment)
Commented ==
    {Digit(1) \o <<Ascii.sp, Ascii.hash, 120, Ascii.nl, Ascii.plus>> \o Digit(2),
     Digit(1) \o <<Ascii.plus>> \o Digit(2) \o <<Ascii.hash, 120>>}

Prefixes(S) == UNION {{SubSeq(w, 1, n) : n \in 0..Len(w)} : w \in S}

ParseInputs == Prefixes(Chains \cup Parens \cup Calls \cup Protos \cup Commented)

Init == input \in ParseInputs /\ InitProgram

Next ==
    \/ InstallBinop
    \/ InstallBuiltins
    \/ GetNextToken
    \/ CallParseExpression
    \/ CallParsePrototype

Spec == Init /\ [][Next]_vars

----------------------------------------------------------------------------
(* What a call of gettok faces, read off the input independently of the    *)
(* scanner: the characters still to come, the pending character after      *)
(* whitespace, and the run of alphanumerics starting there.                *)

\* the lookahead character and everything not yet read, before the last call
Rest(p) ==
    IF p.LastChar = EOF THEN <<>>
    ELSE <<p.LastChar>> \o SubSeq(input, p.pos + 1, Len(input))

At(str, i) == IF i \in 1..Len(str) THEN str[i] ELSE EOF

\* number of leading whitespace characters of str
NumSpaces(str) ==
    CHOOSE k \in 0..Len(str) :
        /\ \A i \in 1..k : IsSpace(str[i])
        /\ ~IsSpace(At(str, k + 1))

\* length of the maximal alphanumeric run of str starting at index i
RunLen(str, i) ==
    CHOOSE n \in 0..(Len(str) + 1 - i) :
        /\ \A j \in i..(i + n - 1) : IsAlnum(str[j])
        /\ ~IsAlnum(At(str, i + n))

IsPunct(c) ==
    /\ c # EOF
    /\ ~IsSpace(c) /\ ~IsAlpha(c) /\ ~IsDigit(c)
    /\ c # Ascii.dot /\ c # Ascii.hash

\* the input position after reading n characters of Rest(p)
PosAfter(p, n) ==
    IF p.pos + n - 1 <= Len(input) THEN p.pos + n - 1 ELSE Len(input)

LexCall == lastop.op = "getNextToken"

----------------------------------------------------------------------------
(* C8: when the pending character after whitespace is not a letter, digit, *)
(* '.', '#' or end of input, gettok returns that character's own value and *)
(* reads exactly one character past it: the lookahead is the character     *)
(* immediately following, which is where the next call starts.             *)
C8_PunctuationToken ==
    LexCall =>
        LET str == Rest(lastop.pre)
            k   == NumSpaces(str)
            c   == At(str, k + 1)
        IN  IsPunct(c) =>
                /\ CurTok = c
                /\ LastChar = At(str, k + 2)
                /\ pos = PosAfter(lastop.pre, k + 2)
                /\ lastop.log[1].reads = k + 1

\* a punctuation character was returned after skipped whitespace, with more input behind it
C8_Witness ==
    /\ LexCall
    /\ LET str == Rest(lastop.pre)
           k   == NumSpaces(str)
       IN  /\ k >= 1
           /\ lastop.pre.pos > 0
           /\ IsPunct(At(str, k + 1))
           /\ At(str, k + 2) # EOF
           /\ CurTok = Ascii.plus

(* C9: when the pending character is a letter, gettok consumes the maximal *)
(* run of alphanumerics; the token is Def iff the run is exactly "def",    *)
(* Extern iff it is exactly "extern", otherwise Identifier with            *)
(* IdentifierStr the run; the first character after the run is left as     *)
(* the lookahead.                                                          *)
C9_IdentifierOrKeyword ==
    LexCall =>
        LET str == Rest(lastop.pre)
            k   == NumSpaces(str)
            c   == At(str, k + 1)
            n   == RunLen(str, k + 1)
            run == SubSeq(str, k + 1, k + n)
        IN  IsAlpha(c) =>
                /\ (CurTok = tok_def) <=> (run = KwDef)
                /\ (CurTok = tok_extern) <=> (run = KwExtern)
                /\ run \notin {KwDef, KwExtern} => CurTok = tok_identifier
                /\ IdentifierStr = run
                /\ CurTok \in {tok_def, tok_extern, tok_identifier}
                /\ LastChar = At(str, k + n + 1)
                /\ pos = PosAfter(lastop.pre, k + n + 1)

\* a name that extends a keyword ("def1", "defd", "externe") came back as an identifier
C9_Witness ==
    /\ LexCall
    /\ CurTok = tok_identifier
    /\ Len(IdentifierStr) > 3
    /\ \/ SubSeq(IdentifierStr, 1, 3) = KwDef
       \/ Len(IdentifierStr) > 6 /\ SubSeq(IdentifierStr, 1, 6) = KwExtern
    /\ LastChar # EOF

(* C10: once gettok has returned EndOfInput, every later call returns      *)
(* EndOfInput and reads nothing from the input, also when the input ended  *)
(* inside a '#' comment with no newline after it.                          *)
C10_EofSticky ==
    /\ (lastop.op # "none" /\ lastop.pre.CurTok = tok_eof) =>
            /\ CurTok = tok_eof
            /\ pos = lastop.pre.pos
            /\ LastChar = EOF
            /\ \A i \in 1..Len(lastop.log) :
                   lastop.log[i].tok = tok_eof /\ lastop.log[i].reads = 0
    /\ \A i \in 1..Len(lastop.log) : \A j \in (i + 1)..Len(lastop.log) :
           lastop.log[i].tok = tok_eof =>
               lastop.log[j].tok = tok_eof /\ lastop.log[j].reads = 0

\* the input ends inside a comment, EndOfInput was returned, and gettok was called again
C10_Witness ==
    /\ LexCall
    /\ lastop.pre.CurTok = tok_eof
    /\ CurTok = tok_eof
    /\ \E i \in 1..Len(input) :
           /\ input[i] = Ascii.hash
           /\ i < Len(input)
           /\ \A j \in i..Len(input) : input[j] # Ascii.nl

----------------------------------------------------------------------------
(* What the parser claims are stated with, written down independently of   *)
(* the parser: the nodes the generated texts denote, the precedence a      *)
(* table gives a character, and the state a driver starts a parse in.      *)

Number(i) == NumberExprAST([m |-> i, e |-> 0])

OperandTree(kind, i) ==
    CASE kind = "num"               -> Number(i)
      [] kind = "mix" /\ i % 3 = 1  -> VariableExprAST(Letter(i))
      [] kind = "mix" /\ i % 3 = 2  -> Number(i)
      [] kind = "mix" /\ i % 3 = 0  -> CallExprAST(Foo, <<>>)

ArgTree(kind, i) ==
    CASE kind = "id"  -> VariableExprAST(Letter(i))
      [] kind = "num" -> Number(i)
      [] kind = "sum" -> BinaryExprAST(Ascii.plus, Number(i), Number(i + 1))

\* ((operand_1 ops[1] operand_2) ops[2] operand_3) ...
RECURSIVE LeftNest(_, _)
LeftNest(kind, ops) ==
    IF ops = <<>> THEN OperandTree(kind, 1)
    ELSE BinaryExprAST(ops[Len(ops)],
                       LeftNest(kind, SubSeq(ops, 1, Len(ops) - 1)),
                       OperandTree(kind, Len(ops) + 1))

\* the precedence tab registers for c, 0 if none
Prec(tab, c) == IF c \in DOMAIN tab /\ tab[c] > 0 THEN tab[c] ELSE 0

ParsedExpression == lastop.op = "ParseExpression"
ParsedPrototype == lastop.op = "ParsePrototype"

\* the call began where a driver begins: CurTok was the input's first
\* token, read by one getNextToken() and nothing else
FromStart ==
    LET g == getNextToken([inp |-> input, pos |-> 0, LastChar |-> Ascii.sp,
                           IdentifierStr |-> <<>>, NumVal |-> [m |-> 0, e |-> 0],
                           CurTok |-> 0, tab |-> <<>>, reads |-> 0, log |-> <<>>,
                           errs |-> <<>>])
    IN  /\ lastop.pre.pos = g.pos
        /\ lastop.pre.LastChar = g.LastChar
        /\ lastop.pre.CurTok = g.CurTok
        /\ lastop.pre.IdentifierStr = g.IdentifierStr
        /\ lastop.pre.NumVal = g.NumVal

\* the call read the input to its end and stopped at EndOfInput
ConsumedAll == CurTok = tok_eof /\ pos = Len(input) /\ LastChar = EOF

----------------------------------------------------------------------------
(* C1: with 0 < prec(op1) < prec(op2), ParseExpression on `a op1 b op2 c`  *)
(* returns BinaryOp(op1, a, BinaryOp(op2, b, c)).                          *)
C1_TighterBinding ==
    (ParsedExpression /\ FromStart) =>
        \A kind \in Kinds, op1 \in ChainOps, op2 \in ChainOps :
            (/\ input = ChainText(kind, <<op1, op2>>)
             /\ 0 < Prec(lastop.pre.tab, op1)
             /\ Prec(lastop.pre.tab, op1) < Prec(lastop.pre.tab, op2))
            => lastop.r = BinaryExprAST(op1, OperandTree(kind, 1),
                              BinaryExprAST(op2, OperandTree(kind, 2),
                                                 OperandTree(kind, 3)))

\* 1+2*3 was parsed with the builtin precedences
C1_Witness ==
    /\ ParsedExpression /\ FromStart
    /\ input = ChainText("num", <<Ascii.plus, Ascii.star>>)
    /\ Prec(lastop.pre.tab, Ascii.plus) = 20
    /\ Prec(lastop.pre.tab, Ascii.star) = 40
    /\ lastop.r.kind = "Binary"

(* C2: a chain of operators that all have the same positive precedence     *)
(* nests to the left: `a op1 b op2 c` gives BinaryOp(op2, BinaryOp(op1,    *)
(* a, b), c), and so on for longer chains.                                 *)
C2_LeftAssociative ==
    (ParsedExpression /\ FromStart) =>
        \A kind \in Kinds, ops \in OpSeqs \cup MixOpSeqs :
            (/\ Len(ops) >= 2
             /\ input = ChainText(kind, ops)
             /\ Prec(lastop.pre.tab, ops[1]) > 0
             /\ \A i \in 1..Len(ops) :
                    Prec(lastop.pre.tab, ops[i]) = Prec(lastop.pre.tab, ops[1]))
            => lastop.r = LeftNest(kind, ops)

\* a chain of three operators of equal precedence, two of them different, was parsed
C2_Witness ==
    /\ ParsedExpression /\ FromStart
    /\ input = ChainText("num", <<Ascii.minus, Ascii.plus, Ascii.minus>>)
    /\ Prec(lastop.pre.tab, Ascii.minus) = 20
    /\ Prec(lastop.pre.tab, Ascii.plus) = 20
    /\ lastop.r.kind = "Binary"

(* C3: whenever an expression is parsed the precedence table holds the     *)
(* builtin operators '<', '+', '-', '*' with precedences 10, 20, 20, 40.   *)
C3_BuiltinsPresent ==
    ParsedExpression =>
        /\ Prec(lastop.pre.tab, Ascii.lt) = 10
        /\ Prec(lastop.pre.tab, Ascii.plus) = 20
        /\ Prec(lastop.pre.tab, Ascii.minus) = 20
        /\ Prec(lastop.pre.tab, Ascii.star) = 40

(* C4: a parse routine that detects an error makes the outermost routine   *)
(* return the failure signal, and getNextToken is not called between the   *)
(* error and that return: exactly one error is logged, no token is read    *)
(* after it, and CurTok is still the offending token.                      *)
C4_FailurePropagates ==
    (ParsedExpression \/ ParsedPrototype) =>
        /\ (lastop.r = Null) <=> (lastop.errs # <<>>)
        /\ lastop.errs # <<>> =>
               /\ Len(lastop.errs) = 1
               /\ lastop.errs[1].at = Len(lastop.log)
               /\ lastop.errs[1].tok = CurTok

\* the error was found several routines deep: foo(1, 2+ and then the end of input
C4_Witness ==
    /\ ParsedExpression /\ FromStart
    /\ input = Foo \o <<Ascii.lpar>> \o Digit(1) \o <<Ascii.comma, Ascii.sp>>
                   \o Digit(2) \o <<Ascii.plus>>
    /\ Prec(lastop.pre.tab, Ascii.plus) > 0
    /\ lastop.r = Null
    /\ CurTok = tok_eof
    /\ Len(lastop.log) = 6

(* C5: an identifier, '(', n >= 0 expressions separated by ',' and ')' is  *)
(* parsed into a Call of that identifier whose arguments are those n       *)
(* expression trees in source order, and the ')' is consumed.              *)
C5_CallArguments ==
    (ParsedExpression /\ FromStart) =>
        \A kinds \in ArgKindSeqs :
            (/\ input = CallText(kinds)
             /\ (\E i \in 1..Len(kinds) : kinds[i] = "sum")
                    => Prec(lastop.pre.tab, Ascii.plus) > 0)
            => /\ lastop.r = CallExprAST(Foo, [i \in 1..Len(kinds) |-> ArgTree(kinds[i], i)])
               /\ ConsumedAll

\* foo(1, 2+3) gave a call with two arguments, the second a BinaryOp
C5_Witness ==
    /\ ParsedExpression /\ FromStart
    /\ input = CallText(<<"num", "sum">>)
    /\ lastop.r.kind = "Call"
    /\ Len(lastop.r.Args) = 2
    /\ lastop.r.Args[2].kind = "Binary"

(* C6: ParsePrototype on f ( p1 ... pk ) returns Prototype(f, [p1..pk])    *)
(* and consumes the ')'; it fails with the function-name error if the      *)
(* first token is not an identifier, with the open-paren error if '(' does *)
(* not follow, and with the close-paren error if the token after the last  *)
(* parameter is not ')'.                                                   *)
C6_Prototype ==
    ParsedPrototype =>
        LET log == lastop.log
            \* index in log of the first token after '(' that is no identifier
            m   == CHOOSE j \in 2..(Len(log) + 1) :
                       /\ \A i \in 2..(j - 1) : log[i].tok = tok_identifier
                       /\ j <= Len(log) => log[j].tok # tok_identifier
        IN  /\ lastop.pre.CurTok # tok_identifier =>
                /\ lastop.r = Null
                /\ lastop.errs[1].msg = "Expected function name in prototype"
                /\ log = <<>>
            /\ (lastop.pre.CurTok = tok_identifier /\ log[1].tok # Ascii.lpar) =>
                /\ lastop.r = Null
                /\ lastop.errs[1].msg = "Expected '(' in prototype"
                /\ Len(log) = 1
            /\ (lastop.pre.CurTok = tok_identifier /\ log[1].tok = Ascii.lpar) =>
                /\ m <= Len(log)
                /\ log[m].tok # Ascii.rpar =>
                       /\ lastop.r = Null
                       /\ lastop.errs[1].msg = "Expected ')' in prototype"
                       /\ Len(log) = m
                /\ log[m].tok = Ascii.rpar =>
                       /\ lastop.r.kind = "Prototype"
                       /\ lastop.r.Name = lastop.pre.IdentifierStr
                       /\ Len(lastop.r.Args) = m - 2
                       /\ Len(log) = m + 1
            /\ FromStart =>
                \A k \in 0..MaxParams :
                    input = ProtoText(k) =>
                        /\ lastop.r = PrototypeAST(Foo, [i \in 1..k |-> Letter(i)])
                        /\ ConsumedAll
            /\ (FromStart /\ input = CallText(<<"id", "id">>)) =>
                /\ lastop.r = Null
                /\ lastop.errs[1].msg = "Expected ')' in prototype"

\* foo(a b c) gave the prototype foo with parameters a, b, c
C6_Witness ==
    /\ ParsedPrototype /\ FromStart
    /\ input = ProtoText(3)
    /\ lastop.r.kind = "Prototype"
    /\ lastop.r.Args = <<Letter(1), Letter(2), Letter(3)>>
    /\ ConsumedAll

(* C7: a parenthesised expression is one primary whose tree is the tree of *)
(* the expression inside: `(a op1 b) op2 c` gives BinaryOp(op2,            *)
(* BinaryOp(op1, a, b), c) and `a op1 (b op2 c)` gives BinaryOp(op1, a,    *)
(* BinaryOp(op2, b, c)), whatever the precedences of the two operators.    *)
C7_ParenthesesOverride ==
    (ParsedExpression /\ FromStart) =>
        \A kind \in Kinds, op1 \in ChainOps, op2 \in ChainOps :
            (Prec(lastop.pre.tab, op1) > 0 /\ Prec(lastop.pre.tab, op2) > 0) =>
                /\ input = ParenLeft(kind, op1, op2) =>
                       lastop.r = BinaryExprAST(op2,
                                      BinaryExprAST(op1, OperandTree(kind, 1),
                                                         OperandTree(kind, 2)),
                                      OperandTree(kind, 3))
                /\ input = ParenRight(kind, op1, op2) =>
                       lastop.r = BinaryExprAST(op1, OperandTree(kind, 1),
                                      BinaryExprAST(op2, OperandTree(kind, 2),
                                                         OperandTree(kind, 3)))

\* (1+2)*3 was parsed with the builtin precedences
C7_Witness ==
    /\ ParsedExpression /\ FromStart
    /\ input = ParenLeft("num", Ascii.plus, Ascii.star)
    /\ Prec(lastop.pre.tab, Ascii.plus) = 20
    /\ Prec(lastop.pre.tab, Ascii.star) = 40
    /\ lastop.r.kind = "Binary"
    /\ lastop.r.Op = Ascii.star

----------------------------------------------------------------------------
(* Termination, stated on the history of a call: how many characters each  *)
(* gettok read, and which tokens a parse routine pulled.                   *)

\* the characters a call still has before it: the lookahead and the unread input
Left(p) == Len(Rest(p))

Now == [pos |-> pos, LastChar |-> LastChar]

RECURSIVE SumReads(_)
SumReads(log) ==
    IF log = <<>> THEN 0 ELSE log[1].reads + SumReads(Tail(log))

ExprKinds == {"Number", "Variable", "Binary", "Call"}

(* C11: every call of gettok returns one token after finitely many reads:  *)
(* a token other than EndOfInput costs at least one read, and the reads of *)
(* a call are exactly the characters by which the remaining input shrank.  *)
(* Every ParseExpression / ParsePrototype returns a node or the failure    *)
(* signal after at most one token per remaining character plus one: no     *)
(* loop goes round without reading a token, and no token is read after     *)
(* EndOfInput has been returned.                                           *)
C11_Termination ==
    lastop.op \in {"getNextToken", "ParseExpression", "ParsePrototype"} =>
        LET log == lastop.log
        IN  /\ \A i \in 1..Len(log) :
                   /\ log[i].tok # tok_eof => log[i].reads >= 1
                   /\ log[i].reads <= Left(lastop.pre)
            /\ SumReads(log) = Left(lastop.pre) - Left(Now)
            /\ LexCall => Len(log) = 1 /\ CurTok = log[1].tok
            /\ (ParsedExpression \/ ParsedPrototype) =>
                   /\ Len(log) <= Left(lastop.pre) + 1
                   /\ \A i \in 1..(Len(log) - 1) : log[i].tok # tok_eof
                   /\ lastop.pre.CurTok = tok_eof => log = <<>> /\ lastop.r = Null
            /\ ParsedExpression => lastop.r = Null \/ lastop.r.kind \in ExprKinds
            /\ ParsedPrototype => lastop.r = Null \/ lastop.r.kind = "Prototype"

\* 1+2#x was parsed to the end: the unterminated comment was skipped and
\* the operator loop stopped at EndOfInput
C11_Witness ==
    /\ ParsedExpression /\ FromStart
    /\ input = Digit(1) \o <<Ascii.plus>> \o Digit(2) \o <<Ascii.hash, 120>>
    /\ Prec(lastop.pre.tab, Ascii.plus) > 0
    /\ lastop.r = BinaryExprAST(Ascii.plus, Number(1), Number(2))
    /\ ConsumedAll
    /\ lastop.log[Len(lastop.log)].tok = tok_eof

(* C12: precedence lookup is read-only: GetTokPrecedence adds, removes and *)
(* modifies no entry, so after any parse the precedence table equals the   *)
(* table configured before the parse began.                                *)
C12_LookupReadOnly ==
    (ParsedExpression \/ ParsedPrototype) => BinopPrecedence = lastop.pre.tab

====
